---- MODULE Spec2Model ----
(***************************************************************************)
(* GnuPGInterface.GnuPG.run(): the handle registry, the pipe wiring, the   *)
(* process launch and the passphrase convenience, as a state machine over  *)
(* the calling process's descriptor table.                                 *)
(*                                                                         *)
(* A descriptor table maps each descriptor number to the open file it      *)
(* names: <<"none",0>> (closed), <<"tty",n>> (the process's own standard   *)
(* stream n), <<"file",n>> (a file the caller opened), <<"r",p>> and       *)
(* <<"w",p>> (the read and the write end of pipe p).                       *)
(***************************************************************************)
EXTENDS Integers, Sequences, FiniteSets, TLC

\* ------------------------------------------------------------------ bounds
\* SC_OPEN_MAX: descriptors are 0 .. MaxFD-1; pipe() fails when fewer than
\* two are free.
MaxFD == 13
\* longest create_fhs list the caller writes
MaxCreate == 2
\* most entries of the attach_fhs dictionary the caller writes
MaxAttach == 2
\* run() calls in one behaviour
MaxCalls == 2
\* the bytes a pipe holds before a write to it blocks
PipeCap == 1
\* the most bytes the caller has to write to the child's standard input
InputLen == 5

\* ------------------------------------------------------------ the registry
_stds == <<"stdin", "stdout", "stderr">>

Stds == {_stds[j] : j \in 1..Len(_stds)}

_fd_modes == [n \in {"stdin", "stdout", "stderr", "passphrase", "command", "logger", "status"} |->
                IF n \in {"stdin", "passphrase", "command"} THEN "w" ELSE "r"]

_fd_options == [n \in {"passphrase", "logger", "status", "command"} |->
                  CASE n = "passphrase" -> "--passphrase-fd"
                    [] n = "logger" -> "--logger-fd"
                    [] n = "status" -> "--status-fd"
                    [] n = "command" -> "--command-fd"]

\* sys.stdin, sys.stdout, sys.stderr: fileno() of the process's own stream
SysStd(std) == CASE std = "stdin" -> 0 [] std = "stdout" -> 1 [] std = "stderr" -> 2

\* ------------------------------------------------------ the caller's inputs
\* names the caller writes in a request: both directions of a standard and
\* of a non-standard handle, and one name outside the registry
ReqNames == {"stdin", "stdout", "passphrase", "logger", "bogus"}

\* descriptors of the files the caller has open and may attach (a caller
\* that attaches one of the process's standard streams to another handle is
\* not modelled)
CallerFiles == {3, 4}

CreateLists == UNION {[1..n -> ReqNames] : n \in 0..MaxCreate}

AttachDicts == UNION {[ks -> CallerFiles] : ks \in {s \in SUBSET ReqNames : Cardinality(s) <= MaxAttach}}

\* ---------------------------------------------------------------- helpers
Fds == 0..(MaxFD - 1)

None == <<"none", 0>>

Range(s) == {s[j] : j \in DOMAIN s}

EmptyMap == [k \in {} |-> 0]

\* d[k] = v, as a dictionary assignment (the key is added or overwritten)
Put(d, k, v) == [x \in DOMAIN d \cup {k} |-> IF x = k THEN v ELSE d[x]]

\* del d[k]
Del(d, k) == [x \in DOMAIN d \ {k} |-> d[x]]

OpenSet(t) == {fd \in Fds : t[fd] # None}

FreeSet(t) == Fds \ OpenSet(t)

Lowest(S) == CHOOSE x \in S : \A y \in S : x <= y

\* os.close(fd) on a table
CloseIn(t, S) == [fd \in Fds |-> IF fd \in S THEN None ELSE t[fd]]

VARIABLES
  passphrase,        \* self.passphrase # None
  execOK,            \* the executable self.call can be executed
  create_fhs,        \* the list object passed as create_fhs
  attach_fhs,        \* the dictionary object passed as attach_fhs: name -> fileno()
  litCreate,         \* history: create_fhs as the caller wrote it
  litAttach,         \* history: attach_fhs as the caller wrote it
  pc,                \* position in run()
  calls,             \* run() calls started
  handle_passphrase, \* local of run()
  idx,               \* position of the loop over create_fhs
  fdtab,             \* the calling process's descriptor table
  cloexec,           \* descriptors of the calling process with FD_CLOEXEC
  pipes,             \* process._pipes: name -> Pipe(parent, child, direct)
  handles,           \* process.handles: name -> stream (its descriptor and mode)
  pid,               \* process.pid (0: None)
  fd_args,           \* _launch_process: the flags and descriptor numbers, in order
  extra_fds,         \* _create_preexec_fn: descriptors preexec_fn closes
  child,             \* the child of this call: its table when the program starts
  err,               \* the exception run() raised
  npipes,            \* history: os.pipe() calls that succeeded in this call
  nchildren,         \* history: children spawned by this call
  pipeOf,            \* history: name -> pipe created for it in this call
  secretIn,          \* history: pipes the passphrase was written into
  closedByLib,       \* history: descriptors this call closed in the parent
  openBefore,        \* history: fdtab when this call began
  events,            \* history: the events of this call, in order
  childState,        \* the child of this call: "none", "running" or "exited"
  returncode,        \* its exit status, once it has exited
  waitRes,           \* the outcome of process.wait(): <<>> while not called
  options,           \* self.options, as _launch_process reads it
  gnupg_commands,    \* run()'s gnupg_commands, as _launch_process reads it
  args,              \* run()'s args, as _launch_process reads it
  command,           \* _launch_process: the argument vector
  prevArgs,          \* history: fd_args of the call before this one
  io_pc,             \* the caller's transfer: "idle", "writing", "reading" or "done"
  toWrite,           \* bytes the caller has still to write to handles['stdin']
  inBuf,             \* bytes in the pipe of the child's standard input
  outPending,        \* bytes the child has produced and not yet written
  outBuf             \* bytes the child has written to its standard output, unread

vars == <<passphrase, execOK, create_fhs, attach_fhs, litCreate, litAttach, pc, calls,
          handle_passphrase, idx, fdtab, cloexec, pipes, handles, pid, fd_args,
          extra_fds, child, err, npipes, nchildren, pipeOf, secretIn, closedByLib,
          openBefore, events, childState, returncode, waitRes, options, gnupg_commands,
          args, command, prevArgs, io_pc, toWrite, inBuf, outPending, outBuf>>

io == <<io_pc, toWrite, inBuf, outPending, outBuf>>

cmdline == <<options, gnupg_commands, args, command, prevArgs>>

life == <<childState, returncode, waitRes>>

\* the exit statuses of the child that are followed
ExitCodes == {0, 2}

env == <<passphrase, execOK, litCreate, litAttach>>

NoChild == [fds |-> [fd \in Fds |-> None], parent |-> [fd \in Fds |-> None], argv |-> <<>>]

\* GnuPG.__init__: self.call
call == "gpg"

\* Options.__init__, and an Options object the caller has changed
DefaultOptions == [meta_interactive |-> 1, armor |-> 0, extra_args |-> <<>>]

\* what a call is made with: self.options, gnupg_commands and args
Invocations ==
  {[options |-> DefaultOptions, gnupg_commands |-> <<"--decrypt">>, args |-> <<>>],
   [options |-> [meta_interactive |-> 0, armor |-> 1, extra_args |-> <<"--no-secmem-warning">>],
    gnupg_commands |-> <<"--sign", "--encrypt">>, args |-> <<"file.txt">>]}

Init ==
  /\ passphrase \in BOOLEAN
  /\ execOK \in BOOLEAN
  /\ litCreate \in CreateLists
  /\ litAttach \in AttachDicts
  /\ create_fhs = litCreate
  /\ attach_fhs = litAttach
  /\ pc = "idle"
  /\ calls = 0
  /\ handle_passphrase = 0
  /\ idx = 1
  /\ fdtab = [fd \in Fds |-> IF fd <= 2 THEN <<"tty", fd>>
                             ELSE IF fd \in CallerFiles THEN <<"file", fd>> ELSE None]
  /\ cloexec = {}
  /\ pipes = EmptyMap
  /\ handles = EmptyMap
  /\ pid = 0
  /\ fd_args = <<>>
  /\ options = DefaultOptions
  /\ gnupg_commands = <<>>
  /\ args = <<>>
  /\ command = <<>>
  /\ prevArgs = <<>>
  /\ io_pc = "idle"
  /\ toWrite = 0
  /\ inBuf = 0
  /\ outPending = 0
  /\ outBuf = 0
  /\ extra_fds = <<>>
  /\ child = NoChild
  /\ err = "none"
  /\ npipes = 0
  /\ nchildren = 0
  /\ pipeOf = EmptyMap
  /\ secretIn = {}
  /\ closedByLib = {}
  /\ openBefore = fdtab
  /\ events = <<>>
  /\ childState = "none"
  /\ returncode = 0
  /\ waitRes = <<>>

\* raise: the exception leaves run()
Raise(e) ==
  /\ pc' = "raised"
  /\ err' = e

\* ------------------------------------------------------------------ run()
\* mutant: a standard name is defaulted although create_fhs lists it
DefaultStdsIgnoringCreate(create, attach) ==
  [k \in DOMAIN attach \cup Stds |-> IF k \in DOMAIN attach THEN attach[k] ELSE SysStd(k)]

\* for std in _stds: ... attach_fhs.setdefault(std, getattr(sys, std))
DefaultStds(create, attach) ==
  [k \in DOMAIN attach \cup {s \in Stds : s \notin DOMAIN attach /\ s \notin Range(create)} |->
     IF k \in DOMAIN attach THEN attach[k] ELSE SysStd(k)]

\* run(), lines 348-363: the caller passes the very objects it passed to the
\* call before (same), or containers it has written anew with the same
\* contents; Process() is constructed in _attach_fork_exec
run_begin ==
  /\ pc \in {"idle", "returned", "raised"}
  /\ io_pc \in {"idle", "done"}
  /\ calls < MaxCalls
  /\ calls' = calls + 1
  /\ \E same \in BOOLEAN :
       LET create == IF same THEN create_fhs ELSE litCreate
           attach == IF same THEN attach_fhs ELSE litAttach
           att == DefaultStds(create, attach)
           hp == passphrase /\ "passphrase" \notin DOMAIN att /\ "passphrase" \notin Range(create)
       IN /\ attach_fhs' = att
          /\ handle_passphrase' = IF hp THEN 1 ELSE 0
          /\ create_fhs' = IF hp THEN Append(create, "passphrase") ELSE create
  /\ pipes' = EmptyMap
  /\ handles' = EmptyMap
  /\ pid' = 0
  /\ fd_args' = <<>>
  /\ prevArgs' = fd_args
  /\ io_pc' = "idle"
  /\ toWrite' = 0
  /\ inBuf' = 0
  /\ outPending' = 0
  /\ outBuf' = 0
  /\ options' = DefaultOptions
  /\ gnupg_commands' = <<>>
  /\ args' = <<>>
  /\ command' = <<>>
  /\ extra_fds' = <<>>
  /\ child' = NoChild
  /\ err' = "none"
  /\ npipes' = 0
  /\ nchildren' = 0
  /\ pipeOf' = EmptyMap
  /\ secretIn' = {}
  /\ closedByLib' = {}
  /\ openBefore' = fdtab
  /\ events' = <<>>
  /\ idx' = 1
  /\ childState' = "none"
  /\ returncode' = 0
  /\ waitRes' = <<>>
  /\ pc' = "validate"
  /\ UNCHANGED <<env, fdtab, cloexec>>

\* mutant: only the names of create_fhs are checked against the registry
UnrecognizedInCreateOnly(create, attach) == {n \in Range(create) : n \notin DOMAIN _fd_modes}

\* _attach_fork_exec, lines 383-387
Unrecognized(create, attach) == {n \in Range(create) \cup DOMAIN attach : n \notin DOMAIN _fd_modes}

validate ==
  /\ pc = "validate"
  /\ IF Unrecognized(create_fhs, attach_fhs) # {}
       THEN Raise("KeyError")
       ELSE pc' = "create" /\ err' = err
  /\ UNCHANGED <<env, life, cmdline, io, create_fhs, attach_fhs, calls, handle_passphrase, idx, fdtab, cloexec,
                 pipes, handles, pid, fd_args, extra_fds, child, npipes, nchildren, pipeOf,
                 secretIn, closedByLib, openBefore, events>>

\* os.pipe(): the two lowest free descriptors, <<read end, write end>>; it
\* raises OSError (EMFILE) when the process has fewer than two left
CanPipe(t) == Cardinality(FreeSet(t)) >= 2

PipeFds(t) == LET r == Lowest(FreeSet(t)) IN <<r, Lowest(FreeSet(t) \ {r})>>

\* _attach_fork_exec, lines 389-408: one iteration of the loop over create_fhs
\* mutant: the pipe is never turned around
OrientAsCreated(fh_name, rw) == rw

\* line 402: os.pipe() gives (read end, write end); the pair is turned
\* around for a handle the parent writes
Orient(fh_name, rw) == IF _fd_modes[fh_name] = "w" THEN <<rw[2], rw[1]>> ELSE rw

create_pipe ==
  /\ pc = "create"
  /\ idx <= Len(create_fhs)
  /\ LET fh_name == create_fhs[idx]
     IN IF fh_name \in DOMAIN attach_fhs
          THEN /\ Raise("ValueError")
               /\ UNCHANGED <<idx, fdtab, cloexec, pipes, npipes, pipeOf>>
          ELSE IF ~CanPipe(fdtab)
          THEN /\ Raise("OSError:pipe")
               /\ UNCHANGED <<idx, fdtab, cloexec, pipes, npipes, pipeOf>>
          ELSE LET rw == PipeFds(fdtab)
                   id == calls * (MaxCreate + 2) + idx
                   pipe == Orient(fh_name, rw)
               IN /\ fdtab' = [fdtab EXCEPT ![rw[1]] = <<"r", id>>, ![rw[2]] = <<"w", id>>]
                  /\ cloexec' = cloexec \cup {pipe[1]}
                  /\ pipes' = Put(pipes, fh_name, [parent |-> pipe[1], child |-> pipe[2], direct |-> 0])
                  /\ pipeOf' = Put(pipeOf, fh_name, id)
                  /\ npipes' = npipes + 1
                  /\ idx' = idx + 1
                  /\ UNCHANGED <<pc, err>>
  /\ UNCHANGED <<env, life, cmdline, io, create_fhs, attach_fhs, calls, handle_passphrase, handles, pid, fd_args,
                 extra_fds, child, nchildren, secretIn, closedByLib, openBefore, events>>

\* _attach_fork_exec, lines 410-411
AttachAll(p, attach) ==
  [k \in DOMAIN p \cup DOMAIN attach |->
     IF k \in DOMAIN attach THEN [parent |-> attach[k], child |-> attach[k], direct |-> 1]
     ELSE p[k]]

attach_pipes ==
  /\ pc = "create"
  /\ idx > Len(create_fhs)
  /\ pipes' = AttachAll(pipes, attach_fhs)
  /\ pc' = "launch"
  /\ UNCHANGED <<env, life, cmdline, io, create_fhs, attach_fhs, calls, handle_passphrase, idx, fdtab, cloexec,
                 handles, pid, fd_args, extra_fds, child, err, npipes, nchildren, pipeOf,
                 secretIn, closedByLib, openBefore, events>>

\* ------------------------------------------------------ _create_preexec_fn
RECURSIVE Repeat(_, _)
Repeat(v, n) == IF n = 0 THEN <<>> ELSE <<v>> \o Repeat(v, n - 1)

\* child_fds = [p.child for p in process._pipes.itervalues()]; child_fds.sort()
RECURSIVE SortedFrom(_, _)
SortedFrom(p, v) ==
  IF v >= MaxFD THEN <<>>
  ELSE Repeat(v, Cardinality({k \in DOMAIN p : p[k].child = v})) \o SortedFrom(p, v + 1)

\* ... child_fds.append(MAXFD)
child_fds(p) == SortedFrom(p, 0) \o <<MaxFD>>

\* child_fd = child_fds_iter.next(); while child_fd < 3: child_fd = child_fds_iter.next()
RECURSIVE SkipStd(_, _)
SkipStd(cf, j) == IF cf[j] < 3 THEN SkipStd(cf, j + 1) ELSE j

\* mutant: every OSError of the probe, not only EBADF, skips the descriptor,
\* so that only terminals are listed
ProbeTerminalsOnly(t, fd) == t[fd][1] = "tty"

\* os.tcgetpgrp(fd) raises EBADF exactly for a descriptor that is not open
Probe(t, fd) == t[fd] # None

\* for fd in xrange(3, MAXFD): ...; j is the position of child_fd in child_fds
RECURSIVE ScanLoop(_, _, _, _, _)
ScanLoop(t, cf, fd, j, extra) ==
  IF fd >= MaxFD THEN extra
  ELSE LET j2 == IF fd > cf[j] THEN j + 1 ELSE j
       IN IF fd = cf[j2] THEN ScanLoop(t, cf, fd + 1, j2, extra)
          ELSE IF ~Probe(t, fd) THEN ScanLoop(t, cf, fd + 1, j2, extra)
          ELSE ScanLoop(t, cf, fd + 1, j2, Append(extra, fd))

\* _create_preexec_fn, lines 454-483: the list extra_fds
_create_preexec_fn(t, p) == LET cf == child_fds(p) IN ScanLoop(t, cf, 3, SkipStd(cf, 1), <<>>)

\* preexec_fn, lines 485-490, on the child's table
preexec_fn(t, extra) == CloseIn(t, Range(extra))

\* --------------------------------------------------------- _launch_process
\* "%d" % n
RECURSIVE Dec(_)
Dec(n) == IF n < 10 THEN <<"0", "1", "2", "3", "4", "5", "6", "7", "8", "9">>[n + 1]
          ELSE Dec(n \div 10) \o Dec(n % 10)

\* the orders in which a dict may enumerate the keys S
Orders(S) == {o \in [1..Cardinality(S) -> S] : Range(o) = S}

\* lines 497-501: the flags of the non-standard handles, for the keys of
\* process._pipes that are not in _stds, enumerated in the order ks
RECURSIVE FdArgs(_, _)
FdArgs(p, ks) ==
  IF ks = <<>> THEN <<>>
  ELSE <<_fd_options[Head(ks)], Dec(p[Head(ks)].child)>> \o FdArgs(p, Tail(ks))

\* Options.get_meta_args
get_meta_args(o) == IF o.meta_interactive = 0 THEN <<"--batch", "--no-tty">> ELSE <<>>

\* Options.get_standard_args
get_standard_args(o) == IF o.armor # 0 THEN <<"--armor">> ELSE <<>>

\* Options.get_args
get_args(o) == get_meta_args(o) \o get_standard_args(o) \o o.extra_args

\* mutant: the options come before the descriptor flags
CommandOptionsFirst(fa, o, cmds, a) == <<call>> \o get_args(o) \o fa \o cmds \o a

\* lines 503-504
Command(fa, o, cmds, a) == <<call>> \o fa \o get_args(o) \o cmds \o a

\* lines 497-509: the argument vector and, with a flag, the cleanup list;
\* items() enumerates the dict in an order the language leaves open
launch_args ==
  /\ pc = "launch"
  /\ \E ks \in Orders({k \in DOMAIN pipes : k \notin Stds}), inv \in Invocations :
       /\ fd_args' = FdArgs(pipes, ks)
       /\ options' = inv.options
       /\ gnupg_commands' = inv.gnupg_commands
       /\ args' = inv.args
       /\ command' = Command(FdArgs(pipes, ks), inv.options, inv.gnupg_commands, inv.args)
       /\ extra_fds' = IF Len(FdArgs(pipes, ks)) > 0 THEN _create_preexec_fn(fdtab, pipes)
                       ELSE <<>>
  /\ pc' = "spawn"
  /\ UNCHANGED <<env, life, io, prevArgs, create_fhs, attach_fhs, calls, handle_passphrase, idx, fdtab, cloexec,
                 pipes, handles, pid, child, err, npipes, nchildren, pipeOf, secretIn,
                 closedByLib, openBefore, events>>

\* mutant: the child inherits every descriptor of the parent
ChildTableInheritAll(t, cx, p, extra, close_fds) ==
  [fd \in Fds |-> IF fd <= 2 THEN t[p[_stds[fd + 1]].child] ELSE t[fd]]

\* subprocess.Popen in the child, between fork and exec: dup2 of the three
\* standard descriptors, close of those above 2, preexec_fn, close_fds, and
\* the exec itself, which closes the FD_CLOEXEC descriptors
ChildTable(t, cx, p, extra, close_fds) ==
  LET i == p["stdin"].child
      o == p["stdout"].child
      e == p["stderr"].child
      d1 == [t EXCEPT ![0] = t[i]]
      d2 == [d1 EXCEPT ![1] = d1[o]]
      d3 == [d2 EXCEPT ![2] = d2[e]]
      d4 == CloseIn(d3, {fd \in {i, o, e} : fd > 2})
      d5 == preexec_fn(d4, extra)
      d6 == IF close_fds THEN CloseIn(d5, {fd \in Fds : fd >= 3}) ELSE d5
  IN CloseIn(d6, cx \ {0, 1, 2})

\* lines 511-518: preexec_fn is a local that is bound only when there is a
\* flag (UnboundLocalError otherwise, before Popen is called); Popen raises
\* OSError when it cannot create its error pipe (two descriptors) or cannot
\* execute self.call, and it leaves the caller's descriptors as they are
launch_spawn ==
  /\ pc = "spawn"
  /\ IF Len(fd_args) = 0
       THEN /\ Raise("UnboundLocalError")
            /\ UNCHANGED <<pid, child, nchildren, events, childState>>
       ELSE IF ~CanPipe(fdtab) \/ ~execOK
       THEN /\ Raise("OSError:spawn")
            /\ UNCHANGED <<pid, child, nchildren, events, childState>>
       ELSE /\ child' = [fds |-> ChildTable(fdtab, cloexec, pipes, extra_fds,
                                            ~(Len(fd_args) > 0)),
                         parent |-> fdtab, argv |-> command]
            /\ nchildren' = nchildren + 1
            /\ pid' = calls
            /\ events' = Append(events, "spawn")
            /\ childState' = "running"
            /\ pc' = "handle_pipes"
            /\ err' = err
  /\ UNCHANGED <<env, returncode, waitRes, cmdline, io, create_fhs, attach_fhs, calls, handle_passphrase, idx, fdtab, cloexec,
                 pipes, handles, fd_args, extra_fds, npipes, pipeOf, secretIn, closedByLib,
                 openBefore>>

\* ----------------------------------------------------------- _handle_pipes
\* mutant: the child side of a direct endpoint is closed as well
ChildSidesOfAll(p) == {p[k].child : k \in DOMAIN p}

\* the child-side descriptors the parent closes
ChildSides(p) == {p[k].child : k \in {x \in DOMAIN p : p[x].direct = 0}}

\* lines 417-427
_handle_pipes ==
  /\ pc = "handle_pipes"
  /\ fdtab' = CloseIn(fdtab, ChildSides(pipes))
  /\ cloexec' = cloexec \ ChildSides(pipes)
  /\ closedByLib' = closedByLib \cup ChildSides(pipes)
  /\ handles' = [k \in {x \in DOMAIN pipes : pipes[x].direct = 0} |->
                   [fd |-> pipes[k].parent, mode |-> _fd_modes[k]]]
  /\ pipes' = EmptyMap
  /\ pc' = IF handle_passphrase = 1 THEN "passphrase_write" ELSE "return"
  /\ UNCHANGED <<env, life, cmdline, io, create_fhs, attach_fhs, calls, handle_passphrase, idx, pid, fd_args,
                 extra_fds, child, err, npipes, nchildren, pipeOf, secretIn, openBefore,
                 events>>

\* ------------------------------------------- run(): the passphrase convenience
\* lines 369-370
passphrase_write ==
  /\ pc = "passphrase_write"
  /\ secretIn' = secretIn \cup {fdtab[handles["passphrase"].fd][2]}
  /\ events' = Append(events, "write")
  /\ pc' = "passphrase_close"
  /\ UNCHANGED <<env, life, cmdline, io, create_fhs, attach_fhs, calls, handle_passphrase, idx, fdtab, cloexec,
                 pipes, handles, pid, fd_args, extra_fds, child, err, npipes, nchildren,
                 pipeOf, closedByLib, openBefore>>

\* mutant: the handle is dropped from 'handles' with its stream left open
passphrase_close_keeps_stream ==
  /\ pc = "passphrase_close"
  /\ handles' = Del(handles, "passphrase")
  /\ events' = Append(events, "close")
  /\ pc' = "return"
  /\ UNCHANGED <<env, life, cmdline, io, create_fhs, attach_fhs, calls, handle_passphrase, idx, fdtab, cloexec,
                 closedByLib, pipes, pid, fd_args, extra_fds, child, err, npipes, nchildren,
                 pipeOf, secretIn, openBefore>>

\* lines 371-372: close() flushes the buffered passphrase into the pipe and
\* closes the descriptor; when the child has exited the pipe has no reader,
\* the flush fails with EPIPE (Python ignores SIGPIPE) and close() raises
\* IOError after it has released the descriptor; line 372 is then not reached
passphrase_close ==
  /\ pc = "passphrase_close"
  /\ fdtab' = CloseIn(fdtab, {handles["passphrase"].fd})
  /\ cloexec' = cloexec \ {handles["passphrase"].fd}
  /\ closedByLib' = closedByLib \cup {handles["passphrase"].fd}
  /\ IF childState = "exited"
       THEN /\ Raise("IOError:EPIPE")
            /\ UNCHANGED <<handles, events>>
       ELSE /\ handles' = Del(handles, "passphrase")
            /\ events' = Append(events, "close")
            /\ pc' = "return"
            /\ err' = err
  /\ UNCHANGED <<env, life, cmdline, io, create_fhs, attach_fhs, calls, handle_passphrase, idx, pipes, pid,
                 fd_args, extra_fds, child, npipes, nchildren, pipeOf, secretIn,
                 openBefore>>

\* -------------------------------------------------- the child and wait()
\* the child exits, of its own accord, with some status; a child with
\* output it has not written yet is in its write
child_exit ==
  /\ childState = "running"
  /\ outPending = 0
  /\ childState' = "exited"
  /\ \E e \in ExitCodes : returncode' = e
  /\ UNCHANGED <<env, waitRes, cmdline, io, create_fhs, attach_fhs, pc, calls, handle_passphrase, idx,
                 fdtab, cloexec, pipes, handles, pid, fd_args, extra_fds, child, err, npipes,
                 nchildren, pipeOf, secretIn, closedByLib, openBefore, events>>

\* mutant: wait() never raises
WaitNeverRaises(e) == <<"ok">>

\* Process.wait, lines 717-718: the outcome for the status e
WaitOutcome(e) == IF e # 0 THEN <<"IOError", e>> ELSE <<"ok">>

\* Process.wait, lines 712-718: self._subproc.wait() blocks until the child
\* has exited; the caller has the Process once run() has returned it
wait ==
  /\ pc = "returned"
  /\ io_pc \in {"idle", "done"}
  /\ childState = "exited"
  /\ waitRes = <<>>
  /\ waitRes' = WaitOutcome(returncode)
  /\ UNCHANGED <<env, childState, returncode, cmdline, io, create_fhs, attach_fhs, pc, calls,
                 handle_passphrase, idx, fdtab, cloexec, pipes, handles, pid, fd_args,
                 extra_fds, child, err, npipes, nchildren, pipeOf, secretIn, closedByLib,
                 openBefore, events>>

\* line 374
run_return ==
  /\ pc = "return"
  /\ events' = Append(events, "return")
  /\ pc' = "returned"
  /\ UNCHANGED <<env, life, cmdline, io, create_fhs, attach_fhs, calls, handle_passphrase, idx, fdtab, cloexec,
                 pipes, handles, pid, fd_args, extra_fds, child, err, npipes, nchildren,
                 pipeOf, secretIn, closedByLib, openBefore>>

\* the caller closes a stream of process.handles that is still open
caller_close ==
  /\ pc = "returned"
  /\ io_pc \in {"idle", "done"}
  /\ \E k \in DOMAIN handles :
       /\ fdtab[handles[k].fd] # None
       /\ fdtab' = CloseIn(fdtab, {handles[k].fd})
       /\ cloexec' = cloexec \ {handles[k].fd}
  /\ UNCHANGED <<env, life, cmdline, io, create_fhs, attach_fhs, pc, calls, handle_passphrase, idx,
                 pipes, handles, pid, fd_args, extra_fds, child, err, npipes, nchildren,
                 pipeOf, secretIn, closedByLib, openBefore, events>>

Next ==
  \/ run_begin
  \/ validate
  \/ create_pipe
  \/ attach_pipes
  \/ launch_args
  \/ launch_spawn
  \/ _handle_pipes
  \/ passphrase_write
  \/ passphrase_close
  \/ run_return
  \/ child_exit
  \/ wait
  \/ caller_close

Spec == Init /\ [][Next]_vars

\* ------------------------------------- the transfer through the handles
\* the caller of the module doctest: it writes all its input to
\* handles['stdin'], closes it, and then reads handles['stdout']
caller_start ==
  /\ pc = "returned"
  /\ io_pc = "idle"
  /\ "stdin" \in DOMAIN handles
  /\ fdtab[handles["stdin"].fd] # None
  /\ \E n \in 1..InputLen : toWrite' = n
  /\ io_pc' = "writing"
  /\ UNCHANGED <<env, life, cmdline, inBuf, outPending, outBuf, create_fhs, attach_fhs, pc,
                 calls, handle_passphrase, idx, fdtab, cloexec, pipes, handles, pid, fd_args,
                 extra_fds, child, err, npipes, nchildren, pipeOf, secretIn, closedByLib,
                 openBefore, events>>

\* mutant: a write to a file waits for room as a write to a pipe does
WritableBounded(end, n) == n < PipeCap

\* a write of one byte to the descriptor 'end' that holds n unread bytes
\* returns: a pipe takes PipeCap bytes, a file or a terminal any number
Writable(end, n) == end[1] # "w" \/ n < PipeCap

\* handles['stdin'].write: the stream hands the byte to the pipe, or the
\* write fails because the child is gone; and handles['stdin'].close()
\* once everything is written
caller_write ==
  /\ io_pc = "writing"
  /\ IF childState = "exited"
       THEN /\ io_pc' = "done"
            /\ UNCHANGED <<toWrite, inBuf, fdtab, cloexec>>
       ELSE IF toWrite > 0
       THEN /\ Writable(fdtab[handles["stdin"].fd], inBuf)
            /\ toWrite' = toWrite - 1
            /\ inBuf' = inBuf + 1
            /\ UNCHANGED <<io_pc, fdtab, cloexec>>
       ELSE /\ fdtab' = CloseIn(fdtab, {handles["stdin"].fd})
            /\ cloexec' = cloexec \ {handles["stdin"].fd}
            /\ io_pc' = "reading"
            /\ UNCHANGED <<toWrite, inBuf>>
  /\ UNCHANGED <<env, life, cmdline, outPending, outBuf, create_fhs, attach_fhs, pc, calls,
                 handle_passphrase, idx, pipes, handles, pid, fd_args, extra_fds, child, err,
                 npipes, nchildren, pipeOf, secretIn, closedByLib, openBefore, events>>

\* handles['stdout'].read(): the caller takes a byte the child has written
\* to the pipe, and is done at end-of-file, when the child has exited
caller_read ==
  /\ io_pc = "reading"
  /\ IF "stdout" \in DOMAIN handles /\ outBuf > 0
       THEN /\ outBuf' = outBuf - 1
            /\ UNCHANGED io_pc
       ELSE /\ childState = "exited"
            /\ io_pc' = "done"
            /\ UNCHANGED outBuf
  /\ UNCHANGED <<env, life, cmdline, toWrite, inBuf, outPending, create_fhs, attach_fhs, pc,
                 calls, handle_passphrase, idx, fdtab, cloexec, pipes, handles, pid, fd_args,
                 extra_fds, child, err, npipes, nchildren, pipeOf, secretIn, closedByLib,
                 openBefore, events>>

\* the child reads a byte of its standard input, when it has written the
\* output of the byte before
child_read ==
  /\ childState = "running"
  /\ child.fds[0][1] = "r"
  /\ outPending = 0
  /\ inBuf > 0
  /\ inBuf' = inBuf - 1
  /\ outPending' = outPending + 1
  /\ UNCHANGED <<env, life, cmdline, io_pc, toWrite, outBuf, create_fhs, attach_fhs, pc, calls,
                 handle_passphrase, idx, fdtab, cloexec, pipes, handles, pid, fd_args,
                 extra_fds, child, err, npipes, nchildren, pipeOf, secretIn, closedByLib,
                 openBefore, events>>

\* the child writes a byte to its standard output
child_write ==
  /\ childState = "running"
  /\ outPending > 0
  /\ Writable(child.fds[1], outBuf)
  /\ outPending' = outPending - 1
  /\ outBuf' = outBuf + 1
  /\ UNCHANGED <<env, life, cmdline, io_pc, toWrite, inBuf, create_fhs, attach_fhs, pc, calls,
                 handle_passphrase, idx, fdtab, cloexec, pipes, handles, pid, fd_args,
                 extra_fds, child, err, npipes, nchildren, pipeOf, secretIn, closedByLib,
                 openBefore, events>>

NextIO ==
  \/ Next
  \/ caller_start
  \/ caller_write
  \/ caller_read
  \/ child_read
  \/ child_write

\* the requests of the transfer: stdin created, with the automatic
\* passphrase, and stdout created, attached to a file or left to default
InitIO ==
  /\ Init
  /\ passphrase
  /\ execOK
  /\ litCreate \in {<<"stdin", "stdout">>, <<"stdin">>}
  /\ litAttach \in {EmptyMap} \cup [{"stdout"} -> CallerFiles]

SpecIO == InitIO /\ [][NextIO]_vars

\* ------------------------------------------------- a second thread in run()
\* the pipe of the other thread's call
OtherPipe == 0

\* _attach_fork_exec, lines 397-408, executed by another thread of the
\* process for a handle of its own run() call (a parent-reads handle:
\* the parent side is the read end and is marked FD_CLOEXEC)
other_thread_pipe ==
  /\ pc \in {"validate", "create", "launch", "spawn", "handle_pipes"}
  /\ \A fd \in Fds : fdtab[fd] \notin {<<"r", OtherPipe>>, <<"w", OtherPipe>>}
  /\ CanPipe(fdtab)
  /\ LET rw == PipeFds(fdtab)
     IN /\ fdtab' = [fdtab EXCEPT ![rw[1]] = <<"r", OtherPipe>>, ![rw[2]] = <<"w", OtherPipe>>]
        /\ cloexec' = cloexec \cup {rw[1]}
  /\ UNCHANGED <<env, life, cmdline, io, create_fhs, attach_fhs, pc, calls, handle_passphrase, idx, pipes,
                 handles, pid, fd_args, extra_fds, child, err, npipes, nchildren, pipeOf,
                 secretIn, closedByLib, openBefore, events>>

NextThreads == Next \/ other_thread_pipe

SpecThreads == Init /\ [][NextThreads]_vars

\* ------------------------------------------------------------------ claims
\* the closed set of handle names
ClosedSet == {"stdin", "stdout", "stderr", "passphrase", "command", "logger", "status"}

\* the request as the caller wrote it is valid
LitValid ==
  /\ Range(litCreate) \cup DOMAIN litAttach \subseteq ClosedSet
  /\ Range(litCreate) \cap DOMAIN litAttach = {}

\* the containers of the running call name something outside the closed set
NamesOutside == \E n \in Range(create_fhs) \cup DOMAIN attach_fhs : n \notin ClosedSet

\* the containers of the running call name a handle in both
NamesInBoth == Range(create_fhs) \cap DOMAIN attach_fhs # {}

\* the standard names the caller mentioned in neither container
Unmentioned == {s \in {"stdin", "stdout", "stderr"} : s \notin Range(litCreate) /\ s \notin DOMAIN litAttach}

\* C1: a valid request makes run() fail only when the OS refuses a pipe or
\* the spawn, and a run() that returns has spawned exactly one child, set the
\* pid, and put into 'handles' exactly the names the caller listed in
\* create_fhs (so no attached name).
C1_ValidRunReturnsCreatedHandles ==
  LitValid =>
    /\ pc = "raised" => err \in {"OSError:pipe", "OSError:spawn"}
    /\ pc = "returned" => nchildren = 1 /\ pid # 0 /\ DOMAIN handles = Range(litCreate)

\* C2: once the names of a request with a name outside the closed set have
\* been checked, run() has failed with the unrecognized-handle error, and it
\* has created no pipe, spawned no child and left the descriptor table as it
\* was.
C2_UnrecognizedFailsBeforeAnyResource ==
  (NamesOutside /\ pc \notin {"idle", "validate"}) =>
     /\ pc = "raised"
     /\ err = "KeyError"
     /\ npipes = 0
     /\ nchildren = 0
     /\ fdtab = openBefore

\* a request whose only unrecognized name is a key of attach_fhs, after
\* valid names in create_fhs, has failed
C2_Witness ==
  /\ pc = "raised"
  /\ err = "KeyError"
  /\ "bogus" \in DOMAIN attach_fhs
  /\ "bogus" \notin Range(create_fhs)
  /\ Len(create_fhs) >= 2

\* C3: a request that names a handle in both containers (and nothing outside
\* the closed set) fails with the conflicting-request error, and when it has
\* failed no pipe has been created by the call.
C3_ConflictFailsBeforeAnyPipe ==
  (NamesInBoth /\ ~NamesOutside /\ pc \notin {"idle", "validate", "create"}) =>
     /\ pc = "raised"
     /\ err = "ValueError"
     /\ npipes = 0

\* C4: when os.pipe() has refused the k-th pipe of a call, the descriptor
\* table of the parent is the one from before the call.
C4_PipeFailureLeavesNoDescriptor ==
  (pc = "raised" /\ err = "OSError:pipe") => fdtab = openBefore

\* C5: when the spawn has failed, the descriptor table of the parent is the
\* one from before the call.
C5_SpawnFailureLeavesNoDescriptor ==
  (pc = "raised" /\ err = "OSError:spawn") => fdtab = openBefore

\* C6: a run() that performs the passphrase convenience has, when it
\* returns, spawned the child, then written the secret, then closed the
\* stream, in this order, and no descriptor of the parent is the write end of
\* the passphrase pipe; before it returns its events are a prefix of that
\* order.
C6_PassphraseOrder ==
  handle_passphrase = 1 =>
    /\ \E n \in 0..4 : events = SubSeq(<<"spawn", "write", "close", "return">>, 1, n)
    /\ pc = "returned" =>
         /\ events = <<"spawn", "write", "close", "return">>
         /\ "passphrase" \notin DOMAIN handles
         /\ \A fd \in Fds : fdtab[fd] # <<"w", pipeOf["passphrase"]>>

\* a run() with the passphrase convenience has returned a Process with
\* another handle
C6_Witness ==
  /\ pc = "returned"
  /\ handle_passphrase = 1
  /\ "stdout" \in DOMAIN handles

\* C7: with a passphrase configured and no 'passphrase' written by the
\* caller into either container, every run() that returns has written the
\* secret into the pipe it created for the child's passphrase descriptor and
\* returns no 'passphrase' handle.
C7_SecretDeliveredInEveryCall ==
  (pc = "returned" /\ passphrase /\ "passphrase" \notin Range(litCreate) \cup DOMAIN litAttach) =>
     /\ "passphrase" \notin DOMAIN handles
     /\ "passphrase" \in DOMAIN pipeOf
     /\ pipeOf["passphrase"] \in secretIn

\* C8: a standard name the caller mentioned in neither container is wired
\* as a direct endpoint on the process's own descriptor, has no pipe, reaches
\* the child as the parent's own stream, and the parent's descriptor is never
\* closed by the library.
C8_DefaultStdIsOwnStream ==
  \A s \in Unmentioned :
     /\ pc # "idle" => SysStd(s) \notin closedByLib /\ fdtab[SysStd(s)] = <<"tty", SysStd(s)>>
     /\ pc \in {"launch", "spawn", "handle_pipes"} =>
          /\ s \in DOMAIN pipes
          /\ pipes[s] = [parent |-> SysStd(s), child |-> SysStd(s), direct |-> 1]
          /\ s \notin DOMAIN pipeOf
     /\ pc = "handle_pipes" => child.fds[SysStd(s)] = <<"tty", SysStd(s)>>

\* create_fhs = ['stdout'] only: the child has been spawned and its stdin and
\* stderr are the parent's own
C8_Witness ==
  /\ pc = "returned"
  /\ litCreate = <<"stdout">>
  /\ DOMAIN litAttach = {}
  /\ nchildren = 1
  /\ child.fds[0] = <<"tty", 0>>
  /\ child.fds[2] = <<"tty", 2>>
  /\ child.fds[1][1] = "w"

\* C9: no child-side descriptor of a wired handle is in the list that the
\* pre-exec cleanup closes.
C9_WiredDescriptorsSurviveCleanup ==
  pc = "handle_pipes" => \A k \in DOMAIN pipes : pipes[k].child \notin Range(extra_fds)

C11_NoForeignPipeInChild ==
  pc = "handle_pipes" => \A fd \in Fds : child.fds[fd] \notin {<<"r", OtherPipe>>, <<"w", OtherPipe>>}

\* C12: wait() reports an outcome only when the child has exited; the
\* outcome is a failure exactly when the exit status is not zero, and the
\* failure carries that status.
C12_WaitReportsNonZeroExit ==
  waitRes # <<>> =>
    /\ childState = "exited"
    /\ (waitRes[1] = "IOError") <=> (returncode # 0)
    /\ waitRes[1] = "IOError" => waitRes[2] = returncode
    /\ waitRes[1] # "IOError" => waitRes = <<"ok">>

\* a child that exited with a status other than zero has been waited for
C12_Witness == pc = "returned" /\ childState = "exited" /\ returncode # 0 /\ waitRes # <<>>

\* C13: run() does not fail in a call whose child has exited with a status
\* other than zero, at whatever moment after the spawn the child exited.
C13_ChildExitNeverFailsRun ==
  (nchildren = 1 /\ childState = "exited" /\ returncode # 0) => pc # "raised"

\* the wired handles that are not standard ones, and the registered flags
NonStd(p) == {k \in DOMAIN p : k \notin {"stdin", "stdout", "stderr"}}

Flags == [passphrase |-> "--passphrase-fd", logger |-> "--logger-fd",
          status |-> "--status-fd", command |-> "--command-fd"]

\* the (flag, number) pairs of a sequence of descriptor-flag arguments
PairSet(fa) == {<<fa[2 * j - 1], fa[2 * j]>> : j \in 1..(Len(fa) \div 2)}

\* C14: the argument vector of a spawned child is the executable, then one
\* (flag, decimal child-side descriptor) pair for each wired non-standard
\* handle and none for a standard one, then the serialized options, the
\* command tokens and the positional arguments.
C14_ArgumentVectorLayout ==
  pc = "handle_pipes" =>
    LET n == Cardinality(NonStd(pipes))
        argv == child.argv
    IN /\ argv[1] = "gpg"
       /\ Len(argv) >= 1 + 2 * n
       /\ \A k \in NonStd(pipes) :
            \E j \in 1..n : argv[2 * j] = Flags[k] /\ argv[2 * j + 1] = ToString(pipes[k].child)
       /\ SubSeq(argv, 2 * n + 2, Len(argv)) = get_args(options) \o gnupg_commands \o args

\* a child spawned with two flags, options, two command tokens and an argument
C14_Witness ==
  /\ pc = "handle_pipes"
  /\ Cardinality(NonStd(pipes)) = 2
  /\ Len(get_args(options)) > 0
  /\ Len(gnupg_commands) = 2
  /\ Len(args) = 1

\* C15: a launch that wires the same non-standard handles to the same
\* descriptor numbers as the launch before it gives the descriptor-flag
\* arguments in the same order.
C15_FlagOrderReproducible ==
  (pc = "handle_pipes" /\ prevArgs # <<>> /\ PairSet(prevArgs) = PairSet(fd_args))
    => fd_args = prevArgs

\* the name run() adds to the created ones for the automatic passphrase
AutoName == IF handle_passphrase = 1 THEN {"passphrase"} ELSE {}

\* C16: a valid request is not refused, and when the wiring is done the
\* endpoint map has one endpoint for each created name (the automatic
\* passphrase included), each attached name and each standard name the
\* caller did not mention, of the kind its name calls for, and no other.
C16_OneEndpointPerName ==
  /\ (calls = 1 /\ LitValid) => err \notin {"KeyError", "ValueError"}
  /\ pc = "launch" =>
       /\ DOMAIN pipes = Range(create_fhs) \cup DOMAIN attach_fhs
       /\ \A k \in Range(create_fhs) : pipes[k].direct = 0
       /\ \A k \in DOMAIN attach_fhs : pipes[k].direct = 1
  /\ (calls = 1 /\ pc = "launch") =>
       /\ DOMAIN pipes = Range(litCreate) \cup AutoName \cup DOMAIN litAttach \cup Unmentioned
       /\ \A k \in Range(litCreate) \cup AutoName : pipes[k].direct = 0
       /\ \A k \in DOMAIN litAttach :
            pipes[k] = [parent |-> litAttach[k], child |-> litAttach[k], direct |-> 1]
       /\ \A k \in Unmentioned : pipes[k].direct = 1

\* wiring done for a request with a created, an attached and an implicit name
C16_Witness ==
  /\ calls = 1
  /\ pc = "launch"
  /\ Range(litCreate) # {}
  /\ DOMAIN litAttach # {}
  /\ Unmentioned # {}
  /\ AutoName # {}

\* the handles whose direction is parent-writes
ParentWrites == {"stdin", "passphrase", "command"}

\* the end of a pipe the parent holds for the handle k, and the child's
ParentEnd(k) == IF k \in ParentWrites THEN "w" ELSE "r"

ChildEnd(k) == IF k \in ParentWrites THEN "r" ELSE "w"

\* C17: the parent side of a created endpoint is the write end and the
\* child side the read end of one pipe exactly for stdin, passphrase and
\* command, the other way round for the other handles; the stream in
\* 'handles' is on the parent side and opened for writing in the first
\* case and for reading in the second.
C17_PipeOrientation ==
  /\ \A k \in DOMAIN pipes : pipes[k].direct = 0 =>
       /\ fdtab[pipes[k].parent][1] = ParentEnd(k)
       /\ fdtab[pipes[k].child][1] = ChildEnd(k)
       /\ fdtab[pipes[k].parent][2] = fdtab[pipes[k].child][2]
  /\ \A k \in DOMAIN handles : fdtab[handles[k].fd] # None =>
       /\ handles[k].mode = ParentEnd(k)
       /\ fdtab[handles[k].fd] = <<ParentEnd(k), pipeOf[k]>>

\* a call that returned a stream to write and a stream to read
C17_Witness ==
  /\ pc = "returned"
  /\ \E k \in DOMAIN handles : k \in ParentWrites /\ handles[k].mode = "w"
  /\ \E k \in DOMAIN handles : k \notin ParentWrites /\ handles[k].mode = "r"

\* the pipe that the j-th name of create_fhs got in the running call
PipeIdOf(j) == calls * (MaxCreate + 2) + j

\* C18: when run() has returned, the parent holds the child side of no
\* pipe this call created and has closed no attached descriptor; run()
\* closes a descriptor only after the spawn.
C18_ParentClosesChildSides ==
  /\ pc = "returned" =>
       /\ \A j \in 1..npipes : \A fd \in Fds : fdtab[fd] # <<ChildEnd(create_fhs[j]), PipeIdOf(j)>>
       /\ \A k \in DOMAIN attach_fhs :
            attach_fhs[k] \notin closedByLib /\ fdtab[attach_fhs[k]] = openBefore[attach_fhs[k]]
  /\ closedByLib # {} => nchildren = 1

\* the stream of the handle k has been closed
StreamClosed(k) == fdtab[handles[k].fd] = None

\* C19: once the caller has closed the stream of a created parent-writes
\* handle, neither the parent nor the child of the call holds the write end
\* of its pipe, so that a read of the child on it meets end-of-file.
C19_ClosedWriteEndHeldByNoProcess ==
  pc = "returned" =>
    \A k \in DOMAIN handles : (k \in ParentWrites /\ StreamClosed(k)) =>
      \A fd \in Fds : /\ fdtab[fd] # <<"w", pipeOf[k]>>
                       /\ child.fds[fd] # <<"w", pipeOf[k]>>

\* the caller has closed the stream it writes stdin to, and the child has
\* the read end of that pipe as its standard input
C19_Witness ==
  /\ pc = "returned"
  /\ "stdin" \in DOMAIN handles
  /\ StreamClosed("stdin")
  /\ child.fds[0] = <<"r", pipeOf["stdin"]>>

\* the caller is in a write to handles['stdin'] that does not return
CallerBlockedWriting ==
  io_pc = "writing" /\ childState = "running" /\ toWrite > 0 /\ inBuf = PipeCap

\* the child is in a write to its standard output that does not return
ChildBlockedWriting == childState = "running" /\ outPending > 0 /\ ~ENABLED child_write

Deadlocked == CallerBlockedWriting /\ ChildBlockedWriting

C21_CallerContainersUnchanged ==
  calls >= 1 => create_fhs = litCreate /\ attach_fhs = litAttach

\* the descriptors the running call opened that are open in the parent
OpenedAndOpen == {fd \in Fds : fdtab[fd] # None /\ fdtab[fd] # openBefore[fd]}

\* the descriptors of the streams of 'handles' that are still open
StreamFds == {handles[k].fd : k \in {x \in DOMAIN handles : ~StreamClosed(x)}}

\* C22: when run() has returned, the descriptors the call opened that are
\* still open are those of the streams in 'handles', whatever create_fhs
\* lists; with every stream closed the table is as it was before the call.
C22_OnlyHandlesStayOpen ==
  pc = "returned" =>
    /\ OpenedAndOpen = StreamFds
    /\ (\A k \in DOMAIN handles : StreamClosed(k)) => fdtab = openBefore
====
